---- MODULE Spec2Model ----
(***************************************************************************)
(* Model of src/src/challenges/day22.rs: the wizard duel (Game, Spell,     *)
(* Effect, EffectTimers) and the lowest-mana search (DijkstraOptimizer).   *)
(*                                                                         *)
(* Spec        drives one Game through player_take_turn, boss_take_turn,   *)
(*             play_round and winner in any order, or through the call     *)
(*             sequence of one of the two unit tests.                      *)
(* SearchSpec  runs DijkstraOptimizer::new followed by the loop of         *)
(*             find_lowest_mana_cost_to_win; a step is one pop from the    *)
(*             heap or one register_neighbor call.                         *)
(* AnyOrderSpec runs the same search with the order among Nodes of equal   *)
(*             cost and the order of the spells left open.                 *)
(*                                                                         *)
(* u32/u8 fields are modelled as integers.  The three unchecked            *)
(* subtractions of the source (mana -= cost, armor -= 7, timer -= 1) are   *)
(* plain subtractions here, so an underflow of the source shows up as a    *)
(* negative value in the model.                                            *)
(***************************************************************************)
EXTENDS Integers, Sequences, FiniteSets, TLC

VARIABLES
    initial,         \* the Game built by Game::new for this run
    game,            \* the Game the calls act on (Spec)
    last,            \* the last call made on game: its operation, spell, state before, result
    driver,          \* who issues the calls: "any" caller, a caller of "rounds" only, or one of the unit tests
    step,            \* calls the unit test has made so far
    activations,     \* per Effect: the duration of its last activation and the ticks since
    node_distances,  \* DijkstraOptimizer.node_distances: a function from Game to cost
    unvisited,       \* DijkstraOptimizer.unvisited: the heap, as a set of Nodes
    pc,              \* position of the search: "idle", "new", "register", "loop", "done", "panic"
    expanded_node,   \* the Node whose neighbors register_neighbors is registering
    spell_index,     \* position of the for loop of register_neighbors in SPELLS
    returned,        \* value returned by find_lowest_mana_cost_to_win
    expansions,      \* history: per Game, the register_neighbors calls made on a Node of it
    popped,          \* history: the total_mana_cost of the Nodes unvisited.pop() has returned, in order
    pushed           \* history: per Node ever pushed, the Recharge ticks on the path to it

vars == <<initial, game, last, driver, step, activations, node_distances, unvisited, pc,
          expanded_node, spell_index, returned, expansions, popped, pushed>>

searchVars == <<node_distances, unvisited, pc, expanded_node, spell_index, returned,
                expansions, popped, pushed>>

----------------------------------------------------------------------------
(* Bounds of the model *)

MaxPlayerHP == 4

MaxBossHP == 6

InitialMana == {0, 250}

BossDamage == {0, 3, 8}

MaxSearchPlayerHP == 8

MaxSearchBossHP == 13

SearchMana == {0, 250, 500}

\* ticks counted after one activation of an effect; the count stops there
MaxTicks == 8

MaxAnyOrderPlayerHP == 4

MaxAnyOrderBossHP == 13

LongDuelBossHP == 21

----------------------------------------------------------------------------
(* Enumerations *)

Spells == {"MagicMissile", "Drain", "Shield", "Poison", "Recharge"}

Difficulty == {"Normal", "Hard"}

Effects == {"Shield", "Poison", "Recharge"}

GameError == {"GameFinished", "NotEnoughMana", "EffectAlreadyActive"}

Max(a, b) == IF a >= b THEN a ELSE b

saturating_sub(a, b) == IF a >= b THEN a - b ELSE 0

\* the element of a singleton set: Only({ F(x) : x \in {e} }) is F(e) with e
\* evaluated once, the way a Rust let binding holds the result of a call
Only(S) == CHOOSE x \in S : TRUE

----------------------------------------------------------------------------
(* Player, Boss, EffectTimers, Game *)

Player_new(hit_points, mana) ==
    [hit_points |-> hit_points, armor |-> 0, mana |-> mana]

Boss_new(hit_points, damage) ==
    [hit_points |-> hit_points, damage |-> damage]

EffectTimers_new ==
    [shield_timer |-> 0, poison_timer |-> 0, recharge_timer |-> 0]

Game_new(player, boss, difficulty) ==
    [player |-> player, boss |-> boss,
     effect_timers |-> EffectTimers_new, difficulty |-> difficulty]

\* damage applied without the floor of 1
deal_damage_unfloored(defender_hit_points, attacker_damage) ==
    saturating_sub(defender_hit_points, attacker_damage)

deal_damage(defender_hit_points, attacker_damage) ==
    saturating_sub(defender_hit_points, Max(attacker_damage, 1))

----------------------------------------------------------------------------
(* Spell *)

\* spells that cost nothing
mana_cost_nothing(spell) == 0

mana_cost(spell) ==
    CASE spell = "MagicMissile" -> 53
      [] spell = "Drain"        -> 73
      [] spell = "Shield"       -> 113
      [] spell = "Poison"       -> 173
      [] spell = "Recharge"     -> 229

\* spells without effects
effect_of_none(spell) == "NoEffect"

effect(spell) ==
    CASE spell = "MagicMissile" -> "NoEffect"
      [] spell = "Drain"        -> "NoEffect"
      [] spell = "Shield"       -> "Shield"
      [] spell = "Poison"       -> "Poison"
      [] spell = "Recharge"     -> "Recharge"

----------------------------------------------------------------------------
(* Effect and EffectTimers *)

\* an activation that gives no armor
Effect_activate_nothing(e, g) == g

Effect_activate(e, g) ==
    IF e = "Shield" THEN [g EXCEPT !.player.armor = @ + 7] ELSE g

\* a poison that takes from the boss's damage instead of its hit points
Effect_apply_weakens(e, g) ==
    CASE e = "Shield"   -> g
      [] e = "Poison"   -> [g EXCEPT !.boss.damage = saturating_sub(@, 3)]
      [] e = "Recharge" -> [g EXCEPT !.player.mana = @ + 101]

Effect_apply(e, g) ==
    CASE e = "Shield"   -> g
      [] e = "Poison"   -> [g EXCEPT !.boss.hit_points = deal_damage(@, 3)]
      [] e = "Recharge" -> [g EXCEPT !.player.mana = @ + 101]

\* deactivation that leaves the armor bonus in place
Effect_deactivate_noop(e, g) == g

Effect_deactivate(e, g) ==
    IF e = "Shield" THEN [g EXCEPT !.player.armor = @ - 7] ELSE g

timer(timers, e) ==
    CASE e = "Shield"   -> timers.shield_timer
      [] e = "Poison"   -> timers.poison_timer
      [] e = "Recharge" -> timers.recharge_timer

\* an activation that sets all three timers
EffectTimers_activate_all(timers, e, duration) ==
    [shield_timer |-> duration, poison_timer |-> duration,
     recharge_timer |-> duration]

EffectTimers_activate(timers, e, duration) ==
    CASE e = "Shield"   -> [timers EXCEPT !.shield_timer = duration]
      [] e = "Poison"   -> [timers EXCEPT !.poison_timer = duration]
      [] e = "Recharge" -> [timers EXCEPT !.recharge_timer = duration]

\* a decrement that takes two from a timer above 1
try_decrement_by_two(timers, e) ==
    IF timer(timers, e) = 0
    THEN [ok |-> FALSE, timers |-> timers, value |-> 0]
    ELSE [ok |-> TRUE,
          timers |-> EffectTimers_activate(timers, e, Max(timer(timers, e) - 2, 0)),
          value |-> Max(timer(timers, e) - 2, 0)]

\* Result<u8, ()>: ok = FALSE is Err(()), otherwise value is the decremented timer
try_decrement(timers, e) ==
    IF timer(timers, e) = 0
    THEN [ok |-> FALSE, timers |-> timers, value |-> 0]
    ELSE [ok |-> TRUE,
          timers |-> EffectTimers_activate(timers, e, timer(timers, e) - 1),
          value |-> timer(timers, e) - 1]

----------------------------------------------------------------------------
(* Game: a step returning Result<(), Winner> is a record                   *)
(* [game |-> the Game after the step, winner |-> "None" for Ok(()), or the *)
(* Winner of Err(winner)].                                                 *)

\* a winner that looks at the boss first
winner_boss_first(g) ==
    IF g.boss.hit_points = 0 THEN "Player"
    ELSE IF g.player.hit_points = 0 THEN "Boss"
    ELSE "None"

winner(g) ==
    IF g.player.hit_points = 0 THEN "Boss"
    ELSE IF g.boss.hit_points = 0 THEN "Player"
    ELSE "None"

\* a check that never finds a winner
winner_result_never(g) == [game |-> g, winner |-> "None"]

winner_result(g) == [game |-> g, winner |-> winner(g)]

\* The record of one private step of a half-turn: the outcome r of the step
\* together with a log naming the step and the Game it left.  The log is not
\* a field of the source; it records which steps a call ran, in order.
logged(step_name, r) ==
    [game |-> r.game, winner |-> r.winner,
     log |-> << [step |-> step_name, game |-> r.game] >>]

\* the outcome of second, run after first returned Ok(())
after(first, second) == [second EXCEPT !.log = first.log \o @]

\* a finished-game check that looks at the player only
assert_no_winner_yet_player_only(g) ==
    IF g.player.hit_points = 0 THEN "GameFinished" ELSE "Ok"

assert_no_winner_yet(g) ==
    IF winner(g) # "None" THEN "GameFinished" ELSE "Ok"

\* a legality check that rejects every running effect, also one with timer 1
assert_player_can_cast_any_active(g, spell) ==
    IF g.player.mana < mana_cost(spell) THEN "NotEnoughMana"
    ELSE IF effect(spell) # "NoEffect" /\ timer(g.effect_timers, effect(spell)) > 0
         THEN "EffectAlreadyActive"
    ELSE "Ok"

assert_player_can_cast(g, spell) ==
    IF g.player.mana < mana_cost(spell) THEN "NotEnoughMana"
    ELSE IF effect(spell) # "NoEffect" /\ timer(g.effect_timers, effect(spell)) > 1
         THEN "EffectAlreadyActive"
    ELSE "Ok"

\* a modifier that takes the hit point on Normal instead of Hard
apply_player_difficulty_modifier_on_normal(g) ==
    logged("apply_player_difficulty_modifier",
        winner_result(
            IF g.difficulty = "Normal"
            THEN [g EXCEPT !.player.hit_points = deal_damage(@, 1)]
            ELSE g))

\* a modifier that takes the hit point on every difficulty
apply_player_difficulty_modifier_on_any(g) ==
    logged("apply_player_difficulty_modifier",
        winner_result([g EXCEPT !.player.hit_points = deal_damage(@, 1)]))

apply_player_difficulty_modifier(g) ==
    logged("apply_player_difficulty_modifier",
        winner_result(
            IF g.difficulty = "Hard"
            THEN [g EXCEPT !.player.hit_points = deal_damage(@, 1)]
            ELSE g))

\* an activation that sets the timer and leaves the armor alone
activate_effect_timer_only(g, e, duration) ==
    [g EXCEPT !.effect_timers = EffectTimers_activate(@, e, duration)]

activate_effect(g, e, duration) ==
    Effect_activate(e,
        [g EXCEPT !.effect_timers = EffectTimers_activate(@, e, duration)])

\* a tick that skips the payload when it takes the timer to 0
apply_effect_if_active_but_last(g, e) ==
    Only({ logged(e,
               IF dec.ok
               THEN winner_result(
                        IF dec.value = 0
                        THEN Effect_deactivate(e,
                                [g EXCEPT !.effect_timers = dec.timers])
                        ELSE Effect_apply(e, [g EXCEPT !.effect_timers = dec.timers]))
               ELSE [game |-> g, winner |-> "None"])
         : dec \in { try_decrement(g.effect_timers, e) } })

apply_effect_if_active(g, e) ==
    Only({ logged(e,
               IF dec.ok
               THEN winner_result(
                        IF dec.value = 0
                        THEN Effect_deactivate(e,
                                Effect_apply(e, [g EXCEPT !.effect_timers = dec.timers]))
                        ELSE Effect_apply(e, [g EXCEPT !.effect_timers = dec.timers]))
               ELSE [game |-> g, winner |-> "None"])
         : dec \in { try_decrement(g.effect_timers, e) } })

\* effects applied one after the other whatever the winner checks have found
apply_active_effects_no_stop(g) ==
    Only({ Only({ after(s, after(p, apply_effect_if_active(p.game, "Recharge")))
                : p \in { apply_effect_if_active(s.game, "Poison") } })
         : s \in { apply_effect_if_active(g, "Shield") } })

\* the ? operator: the next step runs only after Ok(())
apply_active_effects(g) ==
    Only({ IF s.winner # "None" THEN s
           ELSE Only({ IF p.winner # "None" THEN after(s, p)
                       ELSE after(s, after(p,
                                apply_effect_if_active(p.game, "Recharge")))
                     : p \in { apply_effect_if_active(s.game, "Poison") } })
         : s \in { apply_effect_if_active(g, "Shield") } })

\* a cast that deducts the cost of Magic Missile whatever the spell
cast_flat_cost(spell, g) ==
    LET paid == [g EXCEPT !.player.mana = @ - mana_cost("MagicMissile")]
    IN  CASE spell = "MagicMissile" ->
                [paid EXCEPT !.boss.hit_points = deal_damage(@, 4)]
          [] spell = "Drain" ->
                [paid EXCEPT !.boss.hit_points = deal_damage(@, 2),
                             !.player.hit_points = @ + 2]
          [] spell = "Shield"   -> activate_effect(paid, "Shield", 6)
          [] spell = "Poison"   -> activate_effect(paid, "Poison", 6)
          [] spell = "Recharge" -> activate_effect(paid, "Recharge", 5)

cast(spell, g) ==
    LET paid == [g EXCEPT !.player.mana = @ - mana_cost(spell)]
    IN  CASE spell = "MagicMissile" ->
                [paid EXCEPT !.boss.hit_points = deal_damage(@, 4)]
          [] spell = "Drain" ->
                [paid EXCEPT !.boss.hit_points = deal_damage(@, 2),
                             !.player.hit_points = @ + 2]
          [] spell = "Shield"   -> activate_effect(paid, "Shield", 6)
          [] spell = "Poison"   -> activate_effect(paid, "Poison", 6)
          [] spell = "Recharge" -> activate_effect(paid, "Recharge", 5)

\* a cast that leaves the mana as it was
player_cast_spell_unpaid(g, spell) ==
    logged("player_cast_spell",
        winner_result([cast(spell, g) EXCEPT !.player.mana = g.player.mana]))

player_cast_spell(g, spell) ==
    logged("player_cast_spell", winner_result(cast(spell, g)))

\* a boss attack that ignores the armor
boss_attack_unarmored(g) ==
    logged("boss_attack",
        winner_result(
            [g EXCEPT !.player.hit_points = deal_damage(@, g.boss.damage)]))

boss_attack(g) ==
    logged("boss_attack",
        winner_result(
            [g EXCEPT !.player.hit_points =
                deal_damage(@, saturating_sub(g.boss.damage, g.player.armor))]))

\* Result<Option<Winner>, GameError> of the public calls:
\* [game |-> the Game after the call, result |-> a GameError, or "None" for
\*  Ok(None), or the Winner of Ok(Some(winner)), log |-> the private steps
\*  the call ran]
public_result(r) == [game |-> r.game, result |-> r.winner, log |-> r.log]

\* a rejection that reports GameFinished whatever the assertion found
rejected_as_finished(g, error) ==
    [game |-> g, result |-> "GameFinished", log |-> << >>]

\* Err(error) returned by one of the two assertions: no step has run
rejected(g, error) == [game |-> g, result |-> error, log |-> << >>]

\* a player turn that applies the difficulty modifier before the legality check
player_take_turn_modifier_first(g, spell) ==
    IF assert_no_winner_yet(g) # "Ok"
    THEN rejected(g, assert_no_winner_yet(g))
    ELSE Only({ IF d.winner # "None" THEN public_result(d)
                ELSE IF assert_player_can_cast(d.game, spell) # "Ok"
                THEN [game |-> d.game, log |-> d.log,
                      result |-> assert_player_can_cast(d.game, spell)]
                ELSE Only({ IF e.winner # "None" THEN public_result(after(d, e))
                            ELSE public_result(after(d, after(e,
                                    player_cast_spell(e.game, spell))))
                          : e \in { apply_active_effects(d.game) } })
              : d \in { apply_player_difficulty_modifier(g) } })

player_take_turn(g, spell) ==
    IF assert_no_winner_yet(g) # "Ok"
    THEN rejected(g, assert_no_winner_yet(g))
    ELSE IF assert_player_can_cast(g, spell) # "Ok"
    THEN rejected(g, assert_player_can_cast(g, spell))
    ELSE Only({ IF d.winner # "None" THEN public_result(d)
                ELSE Only({ IF e.winner # "None" THEN public_result(after(d, e))
                            ELSE public_result(after(d, after(e,
                                    player_cast_spell(e.game, spell))))
                          : e \in { apply_active_effects(d.game) } })
              : d \in { apply_player_difficulty_modifier(g) } })

\* a boss turn that attacks whatever the effects have decided
boss_take_turn_always_attacks(g) ==
    IF assert_no_winner_yet(g) # "Ok"
    THEN rejected(g, assert_no_winner_yet(g))
    ELSE Only({ public_result(after(e, boss_attack(e.game)))
              : e \in { apply_active_effects(g) } })

boss_take_turn(g) ==
    IF assert_no_winner_yet(g) # "Ok"
    THEN rejected(g, assert_no_winner_yet(g))
    ELSE Only({ IF e.winner # "None" THEN public_result(e)
                ELSE public_result(after(e, boss_attack(e.game)))
              : e \in { apply_active_effects(g) } })

\* a round that calls boss_take_turn after every accepted player turn
play_round_boss_always(g, player_spell) ==
    Only({ IF p.result \in GameError THEN p
           ELSE after(p, boss_take_turn(p.game))
         : p \in { player_take_turn(g, player_spell) } })

play_round(g, player_spell) ==
    Only({ IF p.result \in GameError THEN p
           ELSE IF p.result # "None" THEN p
           ELSE after(p, boss_take_turn(p.game))
         : p \in { player_take_turn(g, player_spell) } })

----------------------------------------------------------------------------
(* Node and its ordering *)

Node(total_mana_cost, game_state) ==
    [total_mana_cost |-> total_mana_cost, game_state |-> game_state]

\* the field order of the derived Ord of Game (Player, Boss, EffectTimers, Difficulty)
Game_fields(g) ==
    << g.player.hit_points, g.player.armor, g.player.mana,
       g.boss.hit_points, g.boss.damage,
       g.effect_timers.shield_timer, g.effect_timers.poison_timer,
       g.effect_timers.recharge_timer,
       IF g.difficulty = "Normal" THEN 0 ELSE 1 >>

\* derived (lexicographic) Ord::cmp of Game
Game_cmp(a, b) ==
    LET fa == Game_fields(a)
        fb == Game_fields(b)
        differ == { i \in 1..Len(fa) : fa[i] # fb[i] }
        first == CHOOSE i \in differ : \A j \in differ : i <= j
    IN  IF differ = {} THEN "Equal"
        ELSE IF fa[first] < fb[first] THEN "Less" ELSE "Greater"

\* Node ordered without the reversal of the cost comparison (a max-heap on cost)
Node_cmp_unreversed(self, other) ==
    IF self.total_mana_cost < other.total_mana_cost THEN "Less"
    ELSE IF self.total_mana_cost > other.total_mana_cost THEN "Greater"
    ELSE Game_cmp(self.game_state, other.game_state)

\* impl Ord for Node: self.cmp(other)
Node_cmp(self, other) ==
    IF other.total_mana_cost < self.total_mana_cost THEN "Less"
    ELSE IF other.total_mana_cost > self.total_mana_cost THEN "Greater"
    ELSE Game_cmp(self.game_state, other.game_state)

\* the least Node of the heap instead of the greatest
heap_pop_least(heap) ==
    CHOOSE n \in heap : \A m \in heap : Node_cmp(m, n) # "Less"

\* BinaryHeap::pop on a non-empty heap: the Node it returns, its greatest
heap_pop(heap) ==
    CHOOSE n \in heap : \A m \in heap : Node_cmp(m, n) # "Greater"

\* the heap read with peek instead of pop: the Node stays in the heap
heap_peek_only(heap, node) == heap

\* BinaryHeap::pop: the heap it leaves
heap_remove(heap, node) == heap \ {node}

----------------------------------------------------------------------------
(* DijkstraOptimizer: a record [node_distances, unvisited].  The heap is a  *)
(* set because a Node is pushed only with a cost strictly below the        *)
(* recorded one, so no Node is pushed twice.                               *)

SPELLS == << "MagicMissile", "Drain", "Shield", "Poison", "Recharge" >>

Pending == [tag |-> "Pending", value |-> 0]

None == [tag |-> "None", value |-> 0]

Some(v) == [tag |-> "Some", value |-> v]

\* the cost of the path so far dropped from the sum
neighbor_cost_spell_only(current_node, spell) == mana_cost(spell)

neighbor_cost(current_node, spell) ==
    current_node.total_mana_cost + mana_cost(spell)

\* neighbor_cost < *node_distances.get(&state).unwrap_or(&u32::MAX):
\* a state without an entry compares as u32::MAX, above every cost of the model
improves(distances, state, cost) ==
    IF state \in DOMAIN distances THEN cost < distances[state] ELSE TRUE

\* an insert that leaves the entry of a state that has one
insert_keeps_first(distances, state, cost) ==
    [ s \in DOMAIN distances \cup {state} |->
        IF s \in DOMAIN distances THEN distances[s] ELSE cost ]

\* HashMap::insert
insert(distances, state, cost) ==
    [ s \in DOMAIN distances \cup {state} |->
        IF s = state THEN cost ELSE distances[s] ]

\* a registration that keeps the rounds the boss has won
register_neighbor_keeps_lost(opt, current_node, spell) ==
    Only({ IF round.result \in GameError THEN opt
           ELSE IF improves(opt.node_distances, round.game,
                            neighbor_cost(current_node, spell))
           THEN [node_distances |->
                    insert(opt.node_distances, round.game,
                           neighbor_cost(current_node, spell)),
                 unvisited |->
                    opt.unvisited \cup
                        { Node(neighbor_cost(current_node, spell), round.game) }]
           ELSE opt
         : round \in { play_round(current_node.game_state, spell) } })

register_neighbor(opt, current_node, spell) ==
    Only({ IF round.result \in GameError THEN opt
           ELSE IF round.result = "Boss" THEN opt
           ELSE IF improves(opt.node_distances, round.game,
                            neighbor_cost(current_node, spell))
           THEN [node_distances |->
                    insert(opt.node_distances, round.game,
                           neighbor_cost(current_node, spell)),
                 unvisited |->
                    opt.unvisited \cup
                        { Node(neighbor_cost(current_node, spell), round.game) }]
           ELSE opt
         : round \in { play_round(current_node.game_state, spell) } })

----------------------------------------------------------------------------
(* The callers of Game *)

\* Game::new over the bounded vitals
InitialGames ==
    { Game_new(Player_new(hp, mana), Boss_new(bhp, damage), difficulty) :
        hp \in 0..MaxPlayerHP, mana \in InitialMana,
        bhp \in 0..MaxBossHP, damage \in BossDamage, difficulty \in Difficulty }

TestNames == {"test_game_scenario_1", "test_game_scenario_2"}

\* the Game each unit test builds
TestGame(test) ==
    IF test = "test_game_scenario_1"
    THEN Game_new(Player_new(10, 250), Boss_new(13, 8), "Normal")
    ELSE Game_new(Player_new(10, 250), Boss_new(14, 8), "Normal")

PlayerCall(spell) == [op |-> "player_take_turn", spell |-> spell]

BossCall == [op |-> "boss_take_turn", spell |-> "none"]

\* the calls each unit test makes on its Game, in order
TestCalls(test) ==
    IF test = "test_game_scenario_1"
    THEN << PlayerCall("Poison"), BossCall, PlayerCall("MagicMissile"), BossCall >>
    ELSE << PlayerCall("Recharge"), BossCall, PlayerCall("Shield"), BossCall,
            PlayerCall("Drain"), BossCall, PlayerCall("Poison"), BossCall,
            PlayerCall("MagicMissile"), BossCall >>

\* one call on a Game, by name
Call(g, c) ==
    CASE c.op = "player_take_turn" -> player_take_turn(g, c.spell)
      [] c.op = "boss_take_turn"   -> boss_take_turn(g)
      [] c.op = "play_round"       -> play_round(g, c.spell)
      [] c.op = "winner"           ->
            [game |-> g, result |-> winner(g), log |-> << >>]

NoCall(g) ==
    [op |-> "new", spell |-> "none", pre |-> g, result |-> "None", log |-> << >>]

SearchIdle ==
    /\ node_distances = <<>>
    /\ unvisited = {}
    /\ pc = "idle"
    /\ expanded_node = Node(0, initial)
    /\ spell_index = 0
    /\ returned = Pending
    /\ expansions = << >>
    /\ popped = << >>
    /\ pushed = << >>

\* No activate_effect call so far
NotActivated ==
    [e \in Effects |-> [duration |-> 0, ticks |-> 0, payload |-> 0]]

\* what one step of effect e has done between two Games: the hit points
\* Poison has taken from the boss, the mana Recharge has given the player
payload(e, before, now) ==
    CASE e = "Shield"   -> 0
      [] e = "Poison"   -> before.boss.hit_points - now.boss.hit_points
      [] e = "Recharge" -> now.player.mana - before.player.mana

\* The activation record of effect e after the steps of log, run from the
\* Game before by a call with the given spell: player_cast_spell of the
\* spell of e starts a new record with the duration activate_effect has
\* set, and every apply_effect_if_active(e) after an activation counts one
\* tick and adds what the step has done to the payload.
RECURSIVE activation_after(_, _, _, _, _)
activation_after(e, activation, before, log, spell) ==
    IF log = << >> THEN activation
    ELSE activation_after(e,
            IF Head(log).step = "player_cast_spell" /\ effect(spell) = e
            THEN [duration |-> timer(Head(log).game.effect_timers, e),
                  ticks |-> 0, payload |-> 0]
            ELSE IF Head(log).step = e /\ activation.duration > 0
            THEN [activation EXCEPT
                    !.ticks = IF @ < MaxTicks THEN @ + 1 ELSE @,
                    !.payload = @ + payload(e, before, Head(log).game)]
            ELSE activation,
            Head(log).game, Tail(log), spell)

\* a Game on which the six ticks of one Poison leave the boss alive
LongDuelGame ==
    Game_new(Player_new(MaxPlayerHP, 500), Boss_new(LongDuelBossHP, 0), "Normal")

Init ==
    /\ \/ driver = "any" /\ initial \in InitialGames
       \/ driver = "rounds" /\ initial \in InitialGames \cup {LongDuelGame}
       \/ driver \in TestNames /\ initial = TestGame(driver)
    /\ game = initial
    /\ last = NoCall(initial)
    /\ step = 0
    /\ activations = NotActivated
    /\ SearchIdle

Apply(c) ==
    /\ \E call \in { Call(game, c) } :
          /\ game' = call.game
          /\ last' = [op |-> c.op, spell |-> c.spell, pre |-> game,
                      result |-> call.result, log |-> call.log]
          /\ activations' =
                [e \in Effects |->
                    activation_after(e, activations[e], game, call.log, c.spell)]
    /\ UNCHANGED <<initial, driver>>
    /\ UNCHANGED searchVars

PlayerTakeTurn ==
    /\ driver = "any"
    /\ \E spell \in Spells : Apply(PlayerCall(spell))
    /\ UNCHANGED step

BossTakeTurn ==
    /\ driver = "any"
    /\ Apply(BossCall)
    /\ UNCHANGED step

PlayRound ==
    /\ driver \in {"any", "rounds"}
    /\ \E spell \in Spells : Apply([op |-> "play_round", spell |-> spell])
    /\ UNCHANGED step

\* Game::winner(), which reads the Game and returns Option<Winner>
Winner ==
    /\ driver = "any"
    /\ Apply([op |-> "winner", spell |-> "none"])
    /\ UNCHANGED step

TestStep ==
    /\ driver \in TestNames
    /\ step < Len(TestCalls(driver))
    /\ Apply(TestCalls(driver)[step + 1])
    /\ step' = step + 1

Next == PlayerTakeTurn \/ BossTakeTurn \/ PlayRound \/ Winner \/ TestStep

Spec == Init /\ [][Next]_vars

----------------------------------------------------------------------------
(* The search: Day22::solve_part1 / solve_part2 on a bounded Game *)

\* a Game the player wins cheapest by letting Poison finish the boss at the
\* start of the third round
PoisonFinishGame ==
    Game_new(Player_new(3, 500), Boss_new(14, 0), "Normal")

SearchGames ==
    { Game_new(Player_new(hp, mana), Boss_new(bhp, damage), difficulty) :
        hp \in 0..MaxSearchPlayerHP, mana \in SearchMana,
        bhp \in 0..MaxSearchBossHP, damage \in BossDamage,
        difficulty \in Difficulty }
    \cup { TestGame(t) : t \in TestNames }
    \cup { PoisonFinishGame }

\* before solve_part1 / solve_part2 has built its Game
SearchInit ==
    /\ initial = Game_new(Player_new(0, 0), Boss_new(0, 0), "Normal")
    /\ game = initial
    /\ last = NoCall(initial)
    /\ driver = "search"
    /\ step = 0
    /\ activations = NotActivated
    /\ node_distances = <<>>
    /\ unvisited = {}
    /\ pc = "new"
    /\ expanded_node = Node(0, initial)
    /\ spell_index = 0
    /\ returned = Pending
    /\ expansions = << >>
    /\ popped = << >>
    /\ pushed = << >>

\* the Recharge steps of log, run from the Game before, that have decremented
\* the timer
recharge_ticks(before, log) ==
    Cardinality({ i \in 1..Len(log) :
        /\ log[i].step = "Recharge"
        /\ log[i].game.effect_timers.recharge_timer
              < (IF i = 1 THEN before
                 ELSE log[i - 1].game).effect_timers.recharge_timer })

\* one more register_neighbors call on a Node of state
expanded(counts, state) ==
    [ s \in DOMAIN counts \cup {state} |->
        IF s = state
        THEN (IF s \in DOMAIN counts THEN counts[s] ELSE 0) + 1
        ELSE counts[s] ]

\* the Nodes new_nodes that register_neighbor has pushed for current_node and
\* one of spells, each with the Recharge ticks of the path to current_node
\* plus those of the round that has led to it
with_pushed(ticks, current_node, spells, new_nodes) ==
    IF new_nodes = {} THEN ticks
    ELSE [ n \in new_nodes |->
            Only({ (IF current_node \in DOMAIN ticks THEN ticks[current_node] ELSE 0)
                   + recharge_ticks(current_node.game_state, round.log)
                 : round \in
                     { play_round(current_node.game_state, spell) :
                         spell \in
                           { CHOOSE candidate \in spells :
                               /\ neighbor_cost(current_node, candidate)
                                     = n.total_mana_cost
                               /\ play_round(current_node.game_state, candidate).game
                                     = n.game_state } } }) ]
         @@ ticks

\* Game::new and DijkstraOptimizer::new(initial_state), up to its call of
\* register_neighbors on the Node of the initial state
New ==
    /\ pc = "new"
    /\ \E initial_state \in SearchGames :
          /\ initial' = initial_state
          /\ expanded_node' = Node(0, initial_state)
          /\ expansions' = expanded(expansions, initial_state)
    /\ spell_index' = 1
    /\ pc' = "register"
    /\ UNCHANGED <<game, last, driver, step, activations, node_distances, unvisited, returned,
                   popped, pushed>>

\* one pass of the for loop of register_neighbors: register_neighbor for the
\* next spell of SPELLS; after the last spell the caller goes (back) to the
\* while loop of find_lowest_mana_cost_to_win
RegisterNeighbor ==
    /\ pc = "register"
    /\ \E opt \in { register_neighbor(
                       [node_distances |-> node_distances, unvisited |-> unvisited],
                       expanded_node, SPELLS[spell_index]) } :
          /\ node_distances' = opt.node_distances
          /\ unvisited' = opt.unvisited
          /\ \E new_nodes \in { opt.unvisited \ unvisited } :
                pushed' = with_pushed(pushed, expanded_node, {SPELLS[spell_index]},
                                      new_nodes)
    /\ spell_index' = IF spell_index < Len(SPELLS) THEN spell_index + 1 ELSE 0
    /\ pc' = IF spell_index < Len(SPELLS) THEN "register" ELSE "loop"
    /\ UNCHANGED <<initial, game, last, driver, step, activations, expanded_node, returned,
                   expansions, popped>>

\* one iteration of the while loop of find_lowest_mana_cost_to_win on a
\* non-empty heap, up to its return, its continue or its call of
\* register_neighbors
Pop ==
    /\ pc = "loop"
    /\ unvisited # {}
    /\ \E node \in { heap_pop(unvisited) } :
          /\ unvisited' = heap_remove(unvisited, node)
          /\ popped' = Append(popped, node.total_mana_cost)
          /\ IF winner(node.game_state) = "Player"
             THEN /\ pc' = "done"
                  /\ returned' = Some(node.total_mana_cost)
                  /\ UNCHANGED <<expanded_node, spell_index, expansions>>
             ELSE IF winner(node.game_state) = "Boss"
             THEN \* unreachable!()
                  /\ pc' = "panic"
                  /\ UNCHANGED <<expanded_node, spell_index, returned, expansions>>
             ELSE IF node.game_state \notin DOMAIN node_distances
             THEN \* node_distances[&node.game_state] without an entry
                  /\ pc' = "panic"
                  /\ UNCHANGED <<expanded_node, spell_index, returned, expansions>>
             ELSE IF node_distances[node.game_state] < node.total_mana_cost
             THEN \* continue
                  /\ pc' = "loop"
                  /\ UNCHANGED <<expanded_node, spell_index, returned, expansions>>
             ELSE /\ pc' = "register"
                  /\ expanded_node' = node
                  /\ spell_index' = 1
                  /\ expansions' = expanded(expansions, node.game_state)
                  /\ UNCHANGED returned
    /\ UNCHANGED <<initial, game, last, driver, step, activations, node_distances, pushed>>

\* the while loop ends on an empty heap: None
Exhausted ==
    /\ pc = "loop"
    /\ unvisited = {}
    /\ pc' = "done"
    /\ returned' = None
    /\ UNCHANGED <<initial, game, last, driver, step, activations, node_distances, unvisited,
                   expanded_node, spell_index, expansions, popped, pushed>>

SearchNext == New \/ RegisterNeighbor \/ Pop \/ Exhausted

SearchSpec == SearchInit /\ [][SearchNext]_vars

\* the search is sequential code: it keeps running until it returns or panics
SearchLive == SearchSpec /\ WF_vars(SearchNext)

----------------------------------------------------------------------------
(* The search with its two orders left open: which of the cheapest Nodes   *)
(* the heap yields, decided in the source by the Game part of Node::cmp,   *)
(* and the order in which register_neighbors goes through the spells,      *)
(* decided in the source by SPELLS.  The behaviours of SearchSpec are among *)
(* those of AnyOrderSpec, with one step here per iteration of the while     *)
(* loop.                                                                    *)

\* the Games the search with open orders is run on
AnyOrderGames ==
    { Game_new(Player_new(hp, mana), Boss_new(bhp, damage), difficulty) :
        hp \in 0..MaxAnyOrderPlayerHP, mana \in SearchMana,
        bhp \in 0..MaxAnyOrderBossHP, damage \in BossDamage,
        difficulty \in Difficulty }
    \cup { PoisonFinishGame }

\* every order of the five spells
SpellOrders ==
    { [i \in 1..Len(SPELLS) |-> SPELLS[f[i]]] : f \in Permutations(1..Len(SPELLS)) }

\* every Node of the heap, whatever its cost
cheapest_or_not(heap) == heap

\* the Nodes of the heap no other Node is cheaper than
cheapest(heap) ==
    { node \in heap :
        \A other \in heap : node.total_mana_cost <= other.total_mana_cost }

RECURSIVE register_neighbors(_, _, _)
\* the for loop of register_neighbors, over the given sequence of spells
register_neighbors(opt, current_node, spells) ==
    IF spells = << >> THEN opt
    ELSE register_neighbors(register_neighbor(opt, current_node, Head(spells)),
                            current_node, Tail(spells))

\* DijkstraOptimizer::new, in the order of SPELLS
DijkstraOptimizer_new(initial_state) ==
    register_neighbors([node_distances |-> << >>, unvisited |-> {}],
                       Node(0, initial_state), SPELLS)

Panic == [tag |-> "Panic", value |-> 0]

RECURSIVE find_lowest_mana_cost_to_win(_)
\* the while loop of find_lowest_mana_cost_to_win run to its end, in the
\* order of Node::cmp and of SPELLS
find_lowest_mana_cost_to_win(opt) ==
    IF opt.unvisited = {} THEN None
    ELSE LET node == heap_pop(opt.unvisited)
             rest == [opt EXCEPT !.unvisited = heap_remove(@, node)]
         IN  IF winner(node.game_state) = "Player"
             THEN Some(node.total_mana_cost)
             ELSE IF winner(node.game_state) = "Boss"
                     \/ node.game_state \notin DOMAIN opt.node_distances
             THEN Panic
             ELSE IF opt.node_distances[node.game_state] < node.total_mana_cost
             THEN find_lowest_mana_cost_to_win(rest)
             ELSE find_lowest_mana_cost_to_win(register_neighbors(rest, node, SPELLS))

\* Game::new and DijkstraOptimizer::new(initial_state), with its call of
\* register_neighbors
NewAnyOrder ==
    /\ pc = "new"
    /\ \E initial_state \in AnyOrderGames :
          /\ initial' = initial_state
          /\ expanded_node' = Node(0, initial_state)
          /\ \E opt \in { register_neighbors(
                             [node_distances |-> node_distances, unvisited |-> unvisited],
                             Node(0, initial_state), spells) : spells \in SpellOrders } :
                /\ node_distances' = opt.node_distances
                /\ unvisited' = opt.unvisited
                /\ \E new_nodes \in { opt.unvisited \ unvisited } :
                      pushed' = with_pushed(pushed, Node(0, initial_state), Spells,
                                            new_nodes)
          /\ expansions' = expanded(expansions, initial_state)
    /\ pc' = "loop"
    /\ UNCHANGED <<game, last, driver, step, activations, spell_index, returned, popped>>

\* one iteration of the while loop of find_lowest_mana_cost_to_win on a
\* non-empty heap, with its call of register_neighbors
PopAnyOrder ==
    /\ pc = "loop"
    /\ unvisited # {}
    /\ \E node \in cheapest(unvisited) :
          /\ popped' = Append(popped, node.total_mana_cost)
          /\ IF winner(node.game_state) = "Player"
             THEN /\ pc' = "done"
                  /\ returned' = Some(node.total_mana_cost)
                  /\ unvisited' = heap_remove(unvisited, node)
                  /\ UNCHANGED <<expanded_node, node_distances, expansions, pushed>>
             ELSE IF winner(node.game_state) = "Boss"
                     \/ node.game_state \notin DOMAIN node_distances
             THEN \* unreachable!(), or node_distances[&node.game_state] without an entry
                  /\ pc' = "panic"
                  /\ unvisited' = heap_remove(unvisited, node)
                  /\ UNCHANGED <<expanded_node, node_distances, returned, expansions, pushed>>
             ELSE IF node_distances[node.game_state] < node.total_mana_cost
             THEN \* continue
                  /\ pc' = "loop"
                  /\ unvisited' = heap_remove(unvisited, node)
                  /\ UNCHANGED <<expanded_node, node_distances, returned, expansions, pushed>>
             ELSE /\ pc' = "loop"
                  /\ expanded_node' = node
                  /\ expansions' = expanded(expansions, node.game_state)
                  /\ \E opt \in { register_neighbors(
                                     [node_distances |-> node_distances,
                                      unvisited |-> heap_remove(unvisited, node)],
                                     node, spells) : spells \in SpellOrders } :
                        /\ node_distances' = opt.node_distances
                        /\ unvisited' = opt.unvisited
                        /\ \E new_nodes \in { opt.unvisited \ heap_remove(unvisited, node) } :
                              pushed' = with_pushed(pushed, node, Spells, new_nodes)
                  /\ UNCHANGED returned
    /\ UNCHANGED <<initial, game, last, driver, step, activations, spell_index>>

AnyOrderNext == NewAnyOrder \/ PopAnyOrder \/ Exhausted

AnyOrderSpec == SearchInit /\ [][AnyOrderNext]_vars

----------------------------------------------------------------------------
(* Replaying spells round by round, independently of the search *)

RECURSIVE WinningCosts(_)
\* the sums of mana_cost over every sequence of one or more spells whose
\* play_round calls from g are all accepted and whose last round yields
\* Winner::Player
WinningCosts(g) ==
    UNION { LET round == play_round(g, spell)
            IN  IF round.result \in GameError \/ round.result = "Boss" THEN {}
                ELSE IF round.result = "Player" THEN { mana_cost(spell) }
                ELSE { mana_cost(spell) + c : c \in WinningCosts(round.game) }
            : spell \in Spells }

----------------------------------------------------------------------------
(* Claims about the search, checked under SearchSpec / SearchLive *)

\* C1: minimality of the search.  When find_lowest_mana_cost_to_win returns
\* Some(c), no sequence of spells whose rounds are all accepted and whose
\* last round yields Winner::Player costs less than c; when it returns None,
\* no such sequence exists.
C1_Minimality ==
    pc = "done" =>
        /\ returned.tag \in {"Some", "None"}
        /\ returned.tag = "Some" =>
              \A c \in WinningCosts(initial) : returned.value <= c
        /\ returned.tag = "None" => WinningCosts(initial) = {}

\* a search that returned a cost although dearer winning sequences exist
C1_Witness ==
    /\ pc = "done"
    /\ returned.tag = "Some"
    /\ \E c \in WinningCosts(initial) : c > returned.value

\* C2: soundness of the search.  When find_lowest_mana_cost_to_win returns
\* Some(c), some sequence of spells replayed from the initial Game through
\* play_round is accepted at every round, ends with Winner::Player and has
\* mana costs summing to exactly c.
C2_Soundness ==
    (pc = "done" /\ returned.tag = "Some") =>
        returned.value \in WinningCosts(initial)

\* a search that returned the cost of a win of more than one round
C2_Witness ==
    /\ pc = "done"
    /\ returned.tag = "Some"
    /\ returned.value \notin { mana_cost(spell) : spell \in Spells }

\* C3: termination of the search.  The loop of find_lowest_mana_cost_to_win
\* eventually stops, by returning the cost of a popped Winner::Player node or
\* by emptying the heap and returning None.
C3_Termination == <>(pc = "done")

\* a finished search that went through nodes in which Recharge was cast and
\* nodes in which Drain had healed the player above the initial health
C3_Witness ==
    /\ pc = "done"
    /\ \E g \in DOMAIN node_distances : g.effect_timers.recharge_timer > 0
    /\ \E g \in DOMAIN node_distances :
          g.player.hit_points > initial.player.hit_points

----------------------------------------------------------------------------
(* Claims about the half-turns, checked under Spec.  last.pre is the Game  *)
(* before the last call and game the Game after it.                        *)

FullDuration(spell) == IF spell = "Recharge" THEN 5 ELSE 6

\* C5 as stated: player_take_turn with Shield, Poison or Recharge, enough
\* mana and no winner yet is rejected with EffectAlreadyActive exactly when
\* the effect's timer is above 1; with a timer of 1 or 0 the call is accepted
\* and the timer afterwards is the full duration.
C5_ReactivationAlwaysCasts ==
    ( /\ last.op = "player_take_turn"
      /\ effect(last.spell) # "NoEffect"
      /\ last.pre.player.hit_points > 0
      /\ last.pre.boss.hit_points > 0
      /\ last.pre.player.mana >= mana_cost(last.spell) )
    => /\ last.result = "EffectAlreadyActive"
            <=> timer(last.pre.effect_timers, effect(last.spell)) > 1
       /\ timer(last.pre.effect_timers, effect(last.spell)) <= 1
            => /\ last.result \notin GameError
               /\ timer(game.effect_timers, effect(last.spell))
                     = FullDuration(last.spell)

\* C5 as amended: the same rejection rule; with a timer of 1 or 0 the call is
\* accepted, and when it returns Ok(None), that is when neither the Hard
\* pre-damage nor an effect tick decided the half-turn before the cast, the
\* timer afterwards is the full duration (6, 6, 5).
C5_Reactivation ==
    ( /\ last.op = "player_take_turn"
      /\ effect(last.spell) # "NoEffect"
      /\ last.pre.player.hit_points > 0
      /\ last.pre.boss.hit_points > 0
      /\ last.pre.player.mana >= mana_cost(last.spell) )
    => /\ last.result = "EffectAlreadyActive"
            <=> timer(last.pre.effect_timers, effect(last.spell)) > 1
       /\ timer(last.pre.effect_timers, effect(last.spell)) <= 1
            => /\ last.result \notin GameError
               /\ last.result = "None"
                    => timer(game.effect_timers, effect(last.spell))
                          = FullDuration(last.spell)

\* Recharge cast again while its timer was exactly 1
C5_Witness ==
    /\ last.op = "player_take_turn"
    /\ last.spell = "Recharge"
    /\ last.pre.effect_timers.recharge_timer = 1
    /\ last.result = "None"
    /\ game.effect_timers.recharge_timer = 5

\* C6: the calls of test_game_scenario_1 (Poison, boss, Magic Missile, boss
\* from player 10/250 against boss 13/8 on Normal) yield: no winner, boss 13,
\* mana 77, poison timer 6; no winner, player 2, boss 10, poison timer 5;
\* no winner, boss 3, mana 24; Winner::Player.
C6_ScenarioA ==
    driver = "test_game_scenario_1" =>
        /\ step = 1 => /\ last.result = "None"
                       /\ game.boss.hit_points = 13
                       /\ game.player.mana = 77
                       /\ game.effect_timers.poison_timer = 6
        /\ step = 2 => /\ last.result = "None"
                       /\ game.player.hit_points = 2
                       /\ game.boss.hit_points = 10
                       /\ game.effect_timers.poison_timer = 5
        /\ step = 3 => /\ last.result = "None"
                       /\ game.boss.hit_points = 3
                       /\ game.player.mana = 24
        /\ step = 4 => last.result = "Player"

\* test_game_scenario_1 after its last call
C6_Witness ==
    /\ driver = "test_game_scenario_1"
    /\ step = 4
    /\ last.op = "boss_take_turn"

\* the values test_game_scenario_2 asserts after its k-th call
VitalsAre(hit_points, armor, mana, boss_hit_points) ==
    /\ game.player = [hit_points |-> hit_points, armor |-> armor, mana |-> mana]
    /\ game.boss.hit_points = boss_hit_points

\* C7: the calls of test_game_scenario_2 (Recharge, Shield, Drain, Poison,
\* Magic Missile, a boss turn after each, from player 10/250 against boss
\* 14/8 on Normal) reproduce the values the test asserts after every call,
\* leave the player at 1 hit point, 0 armor, 114 mana and the boss at 2 hit
\* points after the last cast, and the last boss turn reports Winner::Player.
C7_ScenarioB ==
    driver = "test_game_scenario_2" =>
        /\ step \in 1..9 => last.result = "None"
        /\ step = 1 => VitalsAre(10, 0, 21, 14)
        /\ step = 2 => /\ VitalsAre(2, 0, 122, 14)
                       /\ game.effect_timers.recharge_timer = 4
        /\ step = 3 => /\ VitalsAre(2, 7, 110, 14)
                       /\ game.effect_timers.recharge_timer = 3
        /\ step = 4 => /\ VitalsAre(1, 7, 211, 14)
                       /\ game.effect_timers.shield_timer = 5
                       /\ game.effect_timers.recharge_timer = 2
        /\ step = 5 => /\ VitalsAre(3, 7, 239, 12)
                       /\ game.effect_timers.shield_timer = 4
                       /\ game.effect_timers.recharge_timer = 1
        /\ step = 6 => /\ VitalsAre(2, 7, 340, 12)
                       /\ game.effect_timers.shield_timer = 3
                       /\ game.effect_timers.recharge_timer = 0
        /\ step = 7 => /\ VitalsAre(2, 7, 167, 12)
                       /\ game.effect_timers.shield_timer = 2
        /\ step = 8 => /\ VitalsAre(1, 7, 167, 9)
                       /\ game.effect_timers.poison_timer = 5
                       /\ game.effect_timers.shield_timer = 1
        /\ step = 9 => /\ VitalsAre(1, 0, 114, 2)
                       /\ game.effect_timers.poison_timer = 4
                       /\ game.effect_timers.shield_timer = 0
        /\ step = 10 => last.result = "Player"

\* test_game_scenario_2 after its last call
C7_Witness ==
    /\ driver = "test_game_scenario_2"
    /\ step = 10
    /\ last.op = "boss_take_turn"

\* C8: a call on a Game that has a winner (player or boss at 0 hit points)
\* returns Err(GameFinished), whichever of player_take_turn, boss_take_turn
\* and play_round it is and whatever the spell; a call is accepted only on a
\* Game without a winner.
C8_TerminalAbsorbing ==
    ( /\ last.op \in {"player_take_turn", "boss_take_turn", "play_round"}
      /\ \/ last.pre.player.hit_points = 0
         \/ last.pre.boss.hit_points = 0 )
    => last.result = "GameFinished"

\* a round refused on a boss that was killed during this run
C8_Witness ==
    /\ last.op = "play_round"
    /\ initial.boss.hit_points > 0
    /\ last.pre.boss.hit_points = 0
    /\ last.pre.player.hit_points > 0
    /\ last.result = "GameFinished"

\* C9: every application of damage leaves the defender at
\* max(before - max(raw, 1), 0) hit points: Magic Missile (4) and Drain (2)
\* on the boss, the Poison tick (3) on the boss, the Hard pre-damage (1) on
\* the player and the boss attack (damage - armor) on the player; hit points
\* never go below 0 and a raw damage of 0 or less still removes 1.
C9_DamageFormula ==
    /\ game.player.hit_points >= 0
    /\ game.boss.hit_points >= 0
    /\ ( /\ last.op = "player_take_turn"
         /\ last.result \notin GameError
         /\ last.spell \in {"MagicMissile", "Drain"}
         /\ last.pre.effect_timers.poison_timer = 0
         /\ ~(last.pre.difficulty = "Hard" /\ last.pre.player.hit_points = 1) )
       => game.boss.hit_points =
            Max(last.pre.boss.hit_points
                  - Max(IF last.spell = "Drain" THEN 2 ELSE 4, 1), 0)
    /\ ( /\ last.op = "player_take_turn"
         /\ last.result \notin GameError
         /\ last.spell \in {"Shield", "Poison", "Recharge"}
         /\ last.pre.effect_timers.poison_timer > 0
         /\ ~(last.pre.difficulty = "Hard" /\ last.pre.player.hit_points = 1) )
       => game.boss.hit_points = Max(last.pre.boss.hit_points - Max(3, 1), 0)
    /\ ( /\ last.op = "boss_take_turn"
         /\ last.result \notin GameError
         /\ last.pre.effect_timers.poison_timer > 0 )
       => game.boss.hit_points = Max(last.pre.boss.hit_points - Max(3, 1), 0)
    /\ ( /\ last.op = "player_take_turn"
         /\ last.result \notin GameError
         /\ last.spell # "Drain"
         /\ last.pre.difficulty = "Hard" )
       => game.player.hit_points =
            Max(last.pre.player.hit_points - Max(1, 1), 0)
    /\ ( /\ last.op = "boss_take_turn"
         /\ last.result \notin GameError
         /\ game.boss.hit_points > 0 )
       => game.player.hit_points =
            Max(last.pre.player.hit_points
                  - Max(last.pre.boss.damage - game.player.armor, 1), 0)

\* a boss with damage 0 attacked and removed 1 hit point
C9_Witness ==
    /\ last.op = "boss_take_turn"
    /\ last.result = "None"
    /\ last.pre.boss.damage = 0
    /\ game.player.hit_points = last.pre.player.hit_points - 1

\* C10: an accepted boss_take_turn whose effect ticks produce no winner
\* lowers the player's hit points by max(boss damage - armor, 1), clamped at
\* 0, where the armor is the one left by this half-turn's Shield tick: 0 when
\* the Shield timer was 1 (it expires on this tick), otherwise the armor
\* before the call; the attack reports Winner::Boss exactly when the player
\* reaches 0.  When a tick kills the boss there is no attack.
C10_BossAttack ==
    ( /\ last.op = "boss_take_turn"
      /\ last.result \notin GameError )
    => IF game.boss.hit_points > 0
       THEN /\ game.player.armor =
                 IF last.pre.effect_timers.shield_timer = 1 THEN 0
                 ELSE last.pre.player.armor
            /\ game.player.hit_points =
                 Max(last.pre.player.hit_points
                       - Max(last.pre.boss.damage - game.player.armor, 1), 0)
            /\ last.result = "Boss" <=> game.player.hit_points = 0
            /\ last.result = "None" <=> game.player.hit_points > 0
       ELSE /\ last.result = "Player"
            /\ game.player.hit_points = last.pre.player.hit_points

\* the boss attacked in the half-turn in which the Shield expired, with its
\* full damage
C10_Witness ==
    /\ last.op = "boss_take_turn"
    /\ last.pre.effect_timers.shield_timer = 1
    /\ last.pre.player.armor = 7
    /\ last.pre.boss.damage = 3
    /\ game.player.armor = 0
    /\ game.player.hit_points = last.pre.player.hit_points - 3

----------------------------------------------------------------------------
\* the Game on which step i of the last call ran
StateBefore(i) == IF i = 1 THEN last.pre ELSE last.log[i - 1].game

\* C11: an effect activated with duration d and ticked N times since (N
\* counted up to MaxTicks) without being activated again has the timer
\* max(d - N, 0); and a tick of an effect whose timer is 0 changes nothing in
\* the Game: the timer stays 0 and neither the boss's hit points nor the
\* player's mana move.
C11_TimerCountdown ==
    \A e \in Effects :
        /\ activations[e].ticks < MaxTicks =>
               timer(game.effect_timers, e)
                   = Max(activations[e].duration - activations[e].ticks, 0)
        /\ \A i \in DOMAIN last.log :
               (last.log[i].step = e /\ timer(StateBefore(i).effect_timers, e) = 0)
                   => last.log[i].game = StateBefore(i)

\* an effect has been ticked once more than its duration, the last of these
\* ticks in the last call
C11_Witness ==
    \E e \in Effects :
        /\ activations[e].duration > 0
        /\ activations[e].ticks = activations[e].duration + 1
        /\ \E i \in DOMAIN last.log :
               last.log[i].step = e /\ timer(StateBefore(i).effect_timers, e) = 0

\* the armor a Game must show for its shield timer
ShieldConsistent(g) ==
    g.player.armor = IF g.effect_timers.shield_timer > 0 THEN 7 ELSE 0

\* C12: after every call, accepted or rejected, and after every private step
\* of it, the player's armor is 7 while the shield timer is above 0 and 0
\* otherwise; so a Shield cast on a timer of 1 leaves 7, not 14, and the
\* expiry takes the 7 away once.
C12_ShieldModifier ==
    /\ ShieldConsistent(game)
    /\ \A i \in DOMAIN last.log : ShieldConsistent(last.log[i].game)

\* Shield cast again in the half-turn whose tick took its timer from 1 to 0
C12_Witness ==
    /\ last.op = "player_take_turn"
    /\ last.spell = "Shield"
    /\ last.pre.effect_timers.shield_timer = 1
    /\ last.pre.player.armor = 7
    /\ last.result = "None"
    /\ game.effect_timers.shield_timer = 6
    /\ game.player.armor = 7

\* C13: a Game built with the player and the boss both alive never reaches,
\* by any sequence of player_take_turn, boss_take_turn and play_round calls,
\* a state in which both have 0 hit points, neither after a call nor after a
\* private step of one.
C13_AtMostOneDead ==
    (initial.player.hit_points > 0 /\ initial.boss.hit_points > 0) =>
        /\ ~(game.player.hit_points = 0 /\ game.boss.hit_points = 0)
        /\ \A i \in DOMAIN last.log :
               ~(last.log[i].game.player.hit_points = 0
                    /\ last.log[i].game.boss.hit_points = 0)

\* the boss dies of the poison tick of its own half-turn, with an attack that
\* would have killed the player left unmade
C13_Witness ==
    /\ initial.player.hit_points > 0
    /\ initial.boss.hit_points > 0
    /\ last.op = "boss_take_turn"
    /\ last.result = "Player"
    /\ game.boss.hit_points = 0
    /\ game.player.hit_points > 0
    /\ game.boss.damage - game.player.armor >= game.player.hit_points

\* C14 as stated: winner() looks at the boss first, so a Game with the boss
\* at 0 reports the player as winner even when the player is at 0 too.
C14_BossDeathFirst ==
    last.op = "winner" =>
        last.result =
            IF last.pre.boss.hit_points = 0 THEN "Player"
            ELSE IF last.pre.player.hit_points = 0 THEN "Boss"
            ELSE "None"

\* C14: winner() looks at the player first: it reports the boss as winner
\* whenever the player is at 0, also when the boss is at 0 too, the player
\* as winner only when the boss is at 0 and the player is not, and no winner
\* when both are above 0.
C14_WinnerPrecedence ==
    last.op = "winner" =>
        /\ game = last.pre
        /\ last.result =
               IF last.pre.player.hit_points = 0 THEN "Boss"
               ELSE IF last.pre.boss.hit_points = 0 THEN "Player"
               ELSE "None"

\* winner() called on a Game whose player and boss are both at 0
C14_Witness ==
    /\ last.op = "winner"
    /\ last.pre.player.hit_points = 0
    /\ last.pre.boss.hit_points = 0
    /\ last.result = "Boss"

\* the Game the catalog of spells prescribes for a cast of spell on Game g
Catalog(spell, g) ==
    CASE spell = "MagicMissile" ->
            [g EXCEPT !.player.mana = @ - 53,
                      !.boss.hit_points = Max(@ - 4, 0)]
      [] spell = "Drain" ->
            [g EXCEPT !.player.mana = @ - 73,
                      !.boss.hit_points = Max(@ - 2, 0),
                      !.player.hit_points = @ + 2]
      [] spell = "Shield" ->
            [g EXCEPT !.player.mana = @ - 113,
                      !.effect_timers.shield_timer = 6,
                      !.player.armor = @ + 7]
      [] spell = "Poison" ->
            [g EXCEPT !.player.mana = @ - 173,
                      !.effect_timers.poison_timer = 6]
      [] spell = "Recharge" ->
            [g EXCEPT !.player.mana = @ - 229,
                      !.effect_timers.recharge_timer = 5]

\* C15: the cast step of an accepted half-turn, when it is reached, takes the
\* cost of the spell (53, 73, 113, 173, 229) from the mana and does what the
\* catalog says (Magic Missile 4 damage; Drain 2 damage and 2 hit points to
\* the player; Shield timer 6 and 7 armor; Poison timer 6; Recharge timer 5)
\* and changes nothing else in the Game.
C15_MoveCatalog ==
    \A i \in DOMAIN last.log :
        last.log[i].step = "player_cast_spell" =>
            last.log[i].game = Catalog(last.spell, StateBefore(i))

\* Drain cast in a half-turn whose poison tick has hit the boss first
C15_Witness ==
    /\ last.op = "player_take_turn"
    /\ last.spell = "Drain"
    /\ last.pre.effect_timers.poison_timer > 0
    /\ \E i \in DOMAIN last.log :
          /\ last.log[i].step = "player_cast_spell"
          /\ StateBefore(i) # last.pre
          /\ game = last.log[i].game
    /\ game.player.hit_points = last.pre.player.hit_points + 2

\* C16: whichever of the cheapest Nodes each pop yields and in whichever
\* order each register_neighbors call goes through the five spells, the
\* search ends by returning, and returns the value that
\* find_lowest_mana_cost_to_win returns for the same initial Game in the
\* order of Node::cmp and SPELLS; so all runs on one Game agree.
C16_Determinism ==
    /\ pc # "panic"
    /\ pc = "done" =>
          returned = find_lowest_mana_cost_to_win(DijkstraOptimizer_new(initial))

\* a search that returned the cost of a won Node while a Node of the same
\* cost with no winner was on the heap: the pop could have gone either way
C16_Witness ==
    /\ pc = "done"
    /\ returned.tag = "Some"
    /\ \E other \in unvisited :
          /\ other.total_mana_cost = returned.value
          /\ winner(other.game_state) = "None"

\* an initial Game with both sides alive and a player without mana
ZeroMana ==
    /\ pc # "new"
    /\ initial.player.mana = 0
    /\ initial.player.hit_points > 0
    /\ initial.boss.hit_points > 0

\* C17: the search on an initial Game whose player is alive and has 0 mana,
\* the boss alive, on either difficulty: play_round rejects every spell with
\* NotEnoughMana, no Node is ever pushed and no cost recorded, and the search
\* ends, returning None.
C17_ZeroMana ==
    /\ [](ZeroMana =>
            /\ \A spell \in Spells :
                  play_round(initial, spell).result = "NotEnoughMana"
            /\ unvisited = {}
            /\ node_distances = << >>
            /\ pc \in {"register", "loop", "done"}
            /\ pc = "done" => returned = None)
    /\ [](ZeroMana => <>(pc = "done" /\ returned = None))

\* the search has returned None for a player without mana on Hard
C17_Witness ==
    /\ ZeroMana
    /\ initial.difficulty = "Hard"
    /\ pc = "done"
    /\ returned = None
    /\ unvisited = {}

\* C18: for every initial Game, no Game whose player is at 0 hit points is
\* ever on the heap or in node_distances, and no pop reaches unreachable!().
C18_LosingNeverExplored ==
    /\ \A node \in unvisited : node.game_state.player.hit_points > 0
    /\ \A state \in DOMAIN node_distances : state.player.hit_points > 0
    /\ expanded_node.game_state = initial
          \/ expanded_node.game_state.player.hit_points > 0
    /\ pc # "panic"

\* register_neighbors has gone through the spells of a popped Node, one of
\* which makes the boss win the round, and the search goes on
C18_Witness ==
    /\ pc = "loop"
    /\ expanded_node.game_state # initial
    /\ unvisited # {}
    /\ \E spell \in Spells :
          play_round(expanded_node.game_state, spell).result = "Boss"

\* the half-turns of the last call that got as far as apply_active_effects,
\* whose first step is always the Shield one
HalfTurnsRun ==
    Cardinality({ i \in DOMAIN last.log : last.log[i].step = "Shield" })

\* C19: play_round(spell) is player_take_turn(spell) followed by
\* boss_take_turn exactly when the player's half-turn was accepted and
\* produced no winner, that is when its cast step left both sides alive;
\* otherwise the Game, the returned value and the steps run are those of
\* player_take_turn alone.
C19_FullRound ==
    last.op = "play_round" =>
        LET p == player_take_turn(last.pre, last.spell)
            b == boss_take_turn(p.game)
        IN  /\ HalfTurnsRun = 2 <=>
                  \E i \in DOMAIN last.log :
                      /\ last.log[i].step = "player_cast_spell"
                      /\ last.log[i].game.player.hit_points > 0
                      /\ last.log[i].game.boss.hit_points > 0
            /\ IF p.result = "None"
               THEN /\ game = b.game
                    /\ last.result = b.result
                    /\ last.log = p.log \o b.log
                    /\ HalfTurnsRun = 2
               ELSE /\ game = p.game
                    /\ last.result = p.result
                    /\ last.log = p.log
                    /\ HalfTurnsRun <= 1

\* a round the player won by the cast, with poison left running that a boss
\* half-turn would have ticked
C19_Witness ==
    /\ last.op = "play_round"
    /\ last.result = "Player"
    /\ last.log # << >>
    /\ last.log[Len(last.log)].step = "player_cast_spell"
    /\ game.effect_timers.poison_timer > 0

\* C20: a player_take_turn on a Game without winner is rejected with
\* NotEnoughMana exactly when the cost of the spell is above the mana the
\* player has when the call starts, before the Recharge tick of this
\* half-turn; with a cost equal to that mana the cast is not rejected for
\* mana.  A rejected call leaves the Game as it was.
C20_ResourceLegality ==
    (/\ last.op = "player_take_turn"
     /\ last.pre.player.hit_points > 0
     /\ last.pre.boss.hit_points > 0) =>
        /\ last.result = "NotEnoughMana" <=>
               mana_cost(last.spell) > last.pre.player.mana
        /\ last.result = "NotEnoughMana" => game = last.pre /\ last.log = << >>

\* a spell rejected for mana although the Recharge tick of the half-turn
\* would have brought the mana up to its cost
C20_Witness ==
    /\ last.op = "player_take_turn"
    /\ last.result = "NotEnoughMana"
    /\ last.pre.effect_timers.recharge_timer > 0
    /\ last.pre.player.mana + 101 >= mana_cost(last.spell)

\* a spell cast with exactly its cost in mana at the start of the half-turn
C20_EqualCostAccepted ==
    /\ last.op = "player_take_turn"
    /\ last.result \notin GameError
    /\ last.pre.player.mana = mana_cost(last.spell)

\* no field of the Game is below 0
NonNegative(g) ==
    /\ g.player.hit_points >= 0
    /\ g.player.armor >= 0
    /\ g.player.mana >= 0
    /\ g.boss.hit_points >= 0
    /\ g.effect_timers.shield_timer >= 0
    /\ g.effect_timers.poison_timer >= 0
    /\ g.effect_timers.recharge_timer >= 0

\* C21: along every sequence of calls from every initial Game, no unchecked
\* subtraction goes below 0: every cast step starts with at least the cost
\* of the spell in mana, every Shield step that takes the timer to 0 starts
\* with at least 7 armor, and hit points, armor, mana and timers are at
\* least 0 after every call and every private step.
C21_NoUnderflow ==
    /\ NonNegative(game)
    /\ \A i \in DOMAIN last.log :
          /\ NonNegative(last.log[i].game)
          /\ last.log[i].step = "player_cast_spell" =>
                StateBefore(i).player.mana >= mana_cost(last.spell)
          /\ (last.log[i].step = "Shield"
                 /\ StateBefore(i).effect_timers.shield_timer = 1) =>
                StateBefore(i).player.armor >= 7

\* a half-turn in which the Shield expired and the cast left less mana than
\* any spell costs
C21_Witness ==
    /\ last.op = "player_take_turn"
    /\ last.pre.effect_timers.shield_timer = 1
    /\ last.result = "None"
    /\ game.player.armor = 0
    /\ game.player.mana < 53
    /\ \E i \in DOMAIN last.log : last.log[i].step = "player_cast_spell"

\* the three timers within the duration of their effects
TimersInRange(g) ==
    /\ g.effect_timers.shield_timer \in 0..6
    /\ g.effect_timers.poison_timer \in 0..6
    /\ g.effect_timers.recharge_timer \in 0..5

\* the effects whose timer private step i of the last call may change: its
\* own for a tick, that of the spell for the cast, none otherwise
MayChange(i) ==
    IF last.log[i].step \in Effects THEN { last.log[i].step }
    ELSE IF last.log[i].step = "player_cast_spell" THEN { effect(last.spell) }
    ELSE {}

\* C22: in every state reachable from Game::new, after every call and every
\* private step, the shield and poison timers are in 0..6 and the recharge
\* timer in 0..5; and a tick of one effect or the activation of one effect
\* leaves the timers of the other effects as they were.
C22_TimerRanges ==
    /\ TimersInRange(game)
    /\ \A i \in DOMAIN last.log :
          /\ TimersInRange(last.log[i].game)
          /\ \A e \in Effects \ MayChange(i) :
                timer(last.log[i].game.effect_timers, e)
                    = timer(StateBefore(i).effect_timers, e)

\* Recharge cast in a half-turn that has ticked a running Shield and a
\* running Poison
C22_Witness ==
    /\ last.op = "player_take_turn"
    /\ last.spell = "Recharge"
    /\ last.result = "None"
    /\ last.pre.effect_timers.shield_timer > 1
    /\ last.pre.effect_timers.poison_timer > 1
    /\ game.effect_timers.shield_timer = last.pre.effect_timers.shield_timer - 1
    /\ game.effect_timers.poison_timer = last.pre.effect_timers.poison_timer - 1
    /\ game.effect_timers.recharge_timer = 5

\* the Game has the boss damage and the difficulty of the initial Game
SameParameters(g) ==
    /\ g.boss.damage = initial.boss.damage
    /\ g.difficulty = initial.difficulty

\* C23: no call on a Game, accepted, rejected or winning, and no private
\* step of one changes boss.damage or the difficulty; and every Game the
\* search holds, on the heap, in node_distances or under expansion, has the
\* boss damage and difficulty of the initial Game.
C23_ImmutableParameters ==
    /\ driver # "search" =>
          /\ SameParameters(game)
          /\ SameParameters(last.pre)
          /\ \A i \in DOMAIN last.log : SameParameters(last.log[i].game)
    /\ \A node \in unvisited : SameParameters(node.game_state)
    /\ \A state \in DOMAIN node_distances : SameParameters(state)
    /\ pc \notin {"idle", "new"} => SameParameters(expanded_node.game_state)

\* a round on Hard against a boss of damage 8, with a running Shield, that
\* went through the pre-damage, the ticks, the cast and the boss's attack
C23_Witness ==
    /\ last.op = "play_round"
    /\ game.difficulty = "Hard"
    /\ game.boss.damage = 8
    /\ last.pre.effect_timers.shield_timer > 1
    /\ \E i \in DOMAIN last.log : last.log[i].step = "boss_attack"

\* C24: when the initial Game has the boss at 0 hit points and the player
\* above 0, the search returns Some(0), the cost of casting nothing.
C24_AlreadyWon ==
    (/\ pc = "done"
     /\ initial.boss.hit_points = 0
     /\ initial.player.hit_points > 0) =>
        returned = Some(0)

\* C25: the effect steps of a half-turn come in the order Shield, Poison,
\* Recharge, each following the one before it directly; the Recharge step
\* follows the Poison step unless the Poison step took the boss to 0 hit
\* points, and then the half-turn ends there with Winner::Player, the
\* recharge timer and the mana being what they were when the half-turn's
\* effects began.
C25_TickOrder ==
    \A i \in DOMAIN last.log :
        /\ last.log[i].step = "Shield" =>
              i < Len(last.log) /\ last.log[i + 1].step = "Poison"
        /\ last.log[i].step = "Recharge" =>
              i > 2 /\ last.log[i - 1].step = "Poison"
        /\ last.log[i].step = "Poison" =>
              /\ i > 1
              /\ last.log[i - 1].step = "Shield"
              /\ IF last.log[i].game.boss.hit_points = 0
                 THEN /\ i = Len(last.log)
                      /\ last.result = "Player"
                      /\ game.effect_timers.recharge_timer
                            = StateBefore(i - 1).effect_timers.recharge_timer
                      /\ game.player.mana = StateBefore(i - 1).player.mana
                 ELSE i < Len(last.log) /\ last.log[i + 1].step = "Recharge"

\* a boss half-turn whose Poison tick killed the boss while Recharge was
\* running
C25_Witness ==
    /\ last.op = "boss_take_turn"
    /\ last.result = "Player"
    /\ last.pre.effect_timers.recharge_timer > 0
    /\ last.pre.effect_timers.shield_timer > 0
    /\ game.effect_timers.recharge_timer = last.pre.effect_timers.recharge_timer
    /\ game.effect_timers.shield_timer = last.pre.effect_timers.shield_timer - 1
    /\ game.player.mana = last.pre.player.mana

\* the Game has a winner
Decided(g) == g.player.hit_points = 0 \/ g.boss.hit_points = 0

\* C26: when the Hard pre-damage of a player_take_turn kills the player,
\* nothing else runs: no tick, no cast, and the Game is the one before the
\* call but for the player's hit points.  When the Poison tick of a
\* player_take_turn kills the boss, the spell is not cast: the mana is not
\* reduced, no instant effect is applied, and the Game is the one the Poison
\* step left, with no timer set.
C26_NoCastAfterDecision ==
    last.op = "player_take_turn" =>
        /\ \A i \in DOMAIN last.log :
              Decided(last.log[i].game) => i = Len(last.log)
        /\ \A i \in DOMAIN last.log :
              (last.log[i].step = "apply_player_difficulty_modifier"
                 /\ Decided(last.log[i].game)) =>
                    /\ Len(last.log) = 1
                    /\ last.result = "Boss"
                    /\ game = [last.pre EXCEPT !.player.hit_points = 0]
        /\ \A i \in DOMAIN last.log :
              (last.log[i].step = "Poison" /\ Decided(last.log[i].game)) =>
                    /\ last.result = "Player"
                    /\ game = last.log[i].game
                    /\ game.player.mana = last.pre.player.mana
                    /\ game.effect_timers.recharge_timer
                          = last.pre.effect_timers.recharge_timer
                    /\ game.effect_timers.shield_timer
                          = Max(last.pre.effect_timers.shield_timer - 1, 0)
                    /\ game.effect_timers.poison_timer
                          = last.pre.effect_timers.poison_timer - 1
                    /\ game.player.hit_points
                          = last.pre.player.hit_points
                              - (IF game.difficulty = "Hard" THEN 1 ELSE 0)

\* a Drain that was not cast because the Poison tick of its half-turn
\* killed the boss
C26_Witness ==
    /\ last.op = "player_take_turn"
    /\ last.spell = "Drain"
    /\ last.result = "Player"
    /\ last.log[Len(last.log)].step = "Poison"
    /\ game.player.mana = last.pre.player.mana
    /\ game.player.hit_points = last.pre.player.hit_points

\* C27: every accepted player half-turn starts with the difficulty step,
\* which on Hard takes exactly 1 hit point from the player, before any tick
\* and the cast, and on Normal changes nothing; no other step of any call is
\* a difficulty step, so boss_take_turn has none; and apart from it the
\* player's hit points change only by the 2 of a Drain cast and by the
\* boss's attack.
C27_HardPreDamage ==
    /\ \A i \in DOMAIN last.log :
          /\ last.log[i].step = "apply_player_difficulty_modifier" <=>
                (i = 1 /\ last.op \in {"player_take_turn", "play_round"})
          /\ last.log[i].step = "apply_player_difficulty_modifier" =>
                last.log[i].game =
                    IF last.pre.difficulty = "Hard"
                    THEN [last.pre EXCEPT !.player.hit_points = @ - 1]
                    ELSE last.pre
          /\ last.log[i].game.player.hit_points # StateBefore(i).player.hit_points =>
                \/ last.log[i].step = "apply_player_difficulty_modifier"
                \/ last.log[i].step = "boss_attack"
                \/ /\ last.log[i].step = "player_cast_spell"
                   /\ last.spell = "Drain"
                   /\ last.log[i].game.player.hit_points
                         = StateBefore(i).player.hit_points + 2
    /\ (last.op = "boss_take_turn" /\ last.log # << >>) =>
          last.log[1].step = "Shield"

\* Drain cast on Hard with a running Shield: one hit point lost to the
\* difficulty step, two gained by the cast
C27_Witness ==
    /\ last.op = "player_take_turn"
    /\ last.spell = "Drain"
    /\ last.pre.difficulty = "Hard"
    /\ last.pre.effect_timers.shield_timer > 0
    /\ last.result = "None"
    /\ game.player.hit_points = last.pre.player.hit_points + 1

\* C28: every Poison step on a timer above 0, the one that takes the timer
\* to 0 included, takes 3 hit points from the boss (as far as it has them),
\* and every such Recharge step gives 101 mana; the cast of Poison leaves
\* the boss's hit points and the cast of Recharge gives no mana; so an
\* activation that has run its 6 (5) ticks has taken 18 hit points from a
\* boss that is still alive (has given 505 mana).
C28_PayloadEveryTick ==
    /\ \A i \in DOMAIN last.log :
          /\ (last.log[i].step = "Poison"
                 /\ StateBefore(i).effect_timers.poison_timer > 0) =>
                last.log[i].game.boss.hit_points
                    = Max(StateBefore(i).boss.hit_points - 3, 0)
          /\ (last.log[i].step = "Recharge"
                 /\ StateBefore(i).effect_timers.recharge_timer > 0) =>
                last.log[i].game.player.mana = StateBefore(i).player.mana + 101
          /\ (last.log[i].step = "player_cast_spell" /\ last.spell = "Poison") =>
                last.log[i].game.boss.hit_points = StateBefore(i).boss.hit_points
          /\ (last.log[i].step = "player_cast_spell" /\ last.spell = "Recharge") =>
                last.log[i].game.player.mana = StateBefore(i).player.mana - 229
    /\ game.boss.hit_points > 0 =>
          activations["Poison"].payload
              = 3 * (IF activations["Poison"].ticks < 6
                     THEN activations["Poison"].ticks ELSE 6)
    /\ activations["Recharge"].payload
          = 101 * (IF activations["Recharge"].ticks < 5
                   THEN activations["Recharge"].ticks ELSE 5)
    /\ activations["Shield"].payload = 0

\* one Poison has run out on a boss that is still alive, after 18 hit
\* points, and one Recharge has run out, after 505 mana
C28_Witness ==
    /\ activations["Poison"].ticks >= 6
    /\ activations["Poison"].payload = 18
    /\ game.effect_timers.poison_timer = 0
    /\ game.boss.hit_points > 0
    /\ game.player.hit_points > 0
    /\ activations["Recharge"].ticks >= 5
    /\ activations["Recharge"].payload = 505

\* the timer a spell would set, 0 for a spell that sets none
TimerOfSpell(g, spell) ==
    CASE spell = "Shield"   -> g.effect_timers.shield_timer
      [] spell = "Poison"   -> g.effect_timers.poison_timer
      [] spell = "Recharge" -> g.effect_timers.recharge_timer
      [] OTHER              -> 0

\* C29: player_take_turn on a Game with a winner returns GameFinished
\* whatever the spell; otherwise a spell that costs more than the mana
\* returns NotEnoughMana, also when its timer is above 1; otherwise a spell
\* whose timer is above 1 returns EffectAlreadyActive; otherwise the call is
\* accepted.
C29_RejectionPrecedence ==
    last.op = "player_take_turn" =>
        IF Decided(last.pre) THEN last.result = "GameFinished"
        ELSE IF mana_cost(last.spell) > last.pre.player.mana
        THEN last.result = "NotEnoughMana"
        ELSE IF TimerOfSpell(last.pre, last.spell) > 1
        THEN last.result = "EffectAlreadyActive"
        ELSE last.result \notin GameError

\* Recharge asked for again while it runs and the mana does not cover it
C29_Witness ==
    /\ last.op = "player_take_turn"
    /\ last.spell = "Recharge"
    /\ ~Decided(last.pre)
    /\ last.pre.effect_timers.recharge_timer > 1
    /\ last.pre.player.mana < 229
    /\ last.result = "NotEnoughMana"

\* C30: a player_take_turn, boss_take_turn or play_round that returns an
\* error (GameFinished, NotEnoughMana, EffectAlreadyActive) has run no step
\* and leaves the Game exactly as it was before the call: on Hard no hit
\* point is lost, and no timer is decremented.
C30_RejectionChangesNothing ==
    (/\ last.op \in {"player_take_turn", "boss_take_turn", "play_round"}
     /\ last.result \in GameError) =>
        /\ game = last.pre
        /\ last.log = << >>

\* a round on Hard rejected for a Shield that is still running
C30_Witness ==
    /\ last.op = "play_round"
    /\ last.spell = "Shield"
    /\ last.result = "EffectAlreadyActive"
    /\ last.pre.difficulty = "Hard"
    /\ last.pre.effect_timers.shield_timer > 1
    /\ last.pre.player.hit_points = 1
    /\ game = last.pre

----------------------------------------------------------------------------
(* Claims about the course of the search, checked under SearchSpec *)

Last(s) == s[Len(s)]

\* the pop of this step has returned a Node without a winner, dearer than
\* the cost recorded for its Game
PoppedStale ==
    /\ Len(popped') = Len(popped) + 1
    /\ \E node \in unvisited \ unvisited' :
          /\ winner(node.game_state) = "None"
          /\ node.game_state \in DOMAIN node_distances
          /\ node_distances[node.game_state] < node.total_mana_cost

C32_CheapestFirst ==
    /\ [](\A i \in 1..(Len(popped) - 1) : popped[i] <= popped[i + 1])
    /\ [][Len(popped') = Len(popped) + 1 =>
            /\ \E n \in unvisited \ unvisited' :
                  n.total_mana_cost = Last(popped')
            /\ \A n \in unvisited : Last(popped') <= n.total_mana_cost]_vars

\* a search that has popped Nodes of three different costs and whose heap
\* holds a Node as cheap as the last one popped and a dearer one
C32_Witness ==
    /\ pc = "loop"
    /\ Cardinality({ popped[i] : i \in 1..Len(popped) }) >= 3
    /\ \E n \in unvisited : n.total_mana_cost > Last(popped)
    /\ \E n \in unvisited : n.total_mana_cost = Last(popped)

----------------------------------------------------------------------------
(* Claims about the search, checked under AnyOrderSpec *)

\* the costs of the Nodes ever pushed for a Game
PushedCosts(g) ==
    { n.total_mana_cost : n \in { m \in DOMAIN pushed : m.game_state = g } }

\* C33: the cost map.  At every point of the search each Node of the heap
\* has an entry for its Game in node_distances (so node_distances[&state]
\* does not panic); every entry equals the least total_mana_cost among the
\* Nodes ever pushed for its Game; a Node is pushed only with a cost below
\* the one recorded for its Game, if there is one; and an entry never
\* disappears or goes up.
C33_CostMap ==
    /\ [](/\ \A n \in unvisited : n.game_state \in DOMAIN node_distances
          /\ \A g \in DOMAIN node_distances :
                /\ node_distances[g] \in PushedCosts(g)
                /\ \A c \in PushedCosts(g) : node_distances[g] <= c
          /\ pc # "panic")
    /\ [][/\ \A n \in DOMAIN pushed' \ DOMAIN pushed :
               n.game_state \in DOMAIN node_distances =>
                  n.total_mana_cost < node_distances[n.game_state]
          /\ \A g \in DOMAIN node_distances :
               /\ g \in DOMAIN node_distances'
               /\ node_distances'[g] <= node_distances[g]]_vars

\* a search that has pushed two Nodes for one Game, the dearer one first, and
\* still has the dearer one in its heap
C33_Witness ==
    \E n \in unvisited :
        /\ node_distances[n.game_state] < n.total_mana_cost
        /\ Cardinality(PushedCosts(n.game_state)) = 2

----------------------------------------------------------------------------
(* Claims about the cost and the Games of the search, checked under        *)
(* SearchSpec                                                              *)

\* the mana the engine has taken from the player on the path to a Node of
\* the given Game reached with the given number of Recharge ticks
ManaDeducted(g, ticks) ==
    initial.player.mana + 101 * ticks - g.player.mana

\* C34: the cost of the search is the mana spent.  For every Node the search
\* has pushed, winning Nodes included, total_mana_cost equals the mana
\* deducted from the player along the path to it: the initial mana, plus 101
\* for every Recharge tick on the path, minus the mana of the Node's Game.
C34_CostIsManaSpent ==
    \A n \in DOMAIN pushed :
        n.total_mana_cost = ManaDeducted(n.game_state, pushed[n])

----------------------------------------------------------------------------
(* Claims about whole rounds, checked under Spec *)

\* the measure of a Game: the hit points of the player plus those of the boss
Health(g) == g.player.hit_points + g.boss.hit_points

\* C35: a play_round that is accepted and returns no winner leaves the sum of
\* the player's and the boss's hit points strictly lower than it was; so the
\* Game after it differs from the Game before it, and a caller that only
\* plays rounds never comes back to a Game it has been in, the initial one
\* included: every Game without a winner it gets to is below the initial
\* one in that sum, and an accepted round never ends in the initial Game.
C35_ProgressMeasure ==
    /\ (last.op = "play_round" /\ last.result = "None") =>
            /\ Health(game) < Health(last.pre)
            /\ game # last.pre
    /\ (driver = "rounds" /\ game # initial /\ winner(game) = "None") =>
            Health(game) < Health(initial)
    /\ (driver = "rounds" /\ last.op = "play_round" /\ last.result \notin GameError) =>
            game # initial

\* a round with Drain against a boss of damage 0: the 2 hit points healed
\* are the 2 the boss has lost, and the attack has taken its least, 1
C35_Witness ==
    /\ last.op = "play_round"
    /\ last.spell = "Drain"
    /\ last.result = "None"
    /\ game.boss.damage = 0
    /\ game.player.hit_points = last.pre.player.hit_points + 1
    /\ Health(game) = Health(last.pre) - 1

----------------------------------------------------------------------------
(* Claims about the Games at the end of a round, checked under Spec for the *)
(* caller that only plays rounds; the part about the search also holds     *)
(* under SearchSpec                                                        *)

\* the Games the search holds: the initial Game once DijkstraOptimizer::new
\* has it, and the Games of node_distances, each reached from it by rounds
StoredGames ==
    (IF pc = "new" THEN {} ELSE {initial}) \cup DOMAIN node_distances

\* C36: in every Game without a winner that whole rounds lead to from
\* Game::new (the Games the search stores), shield_timer and poison_timer are
\* 0, 1, 3 or 5 and recharge_timer is 0, 2 or 4; so when register_neighbor
\* has play_round check a spell, Recharge never meets a timer of exactly 1.
C36_RoundBoundaryTimers ==
    /\ \A g \in StoredGames :
          winner(g) = "None" =>
             /\ g.effect_timers.shield_timer \in {0, 1, 3, 5}
             /\ g.effect_timers.poison_timer \in {0, 1, 3, 5}
             /\ g.effect_timers.recharge_timer \in {0, 2, 4}
    /\ pc = "register" =>
          expanded_node.game_state.effect_timers.recharge_timer # 1
    /\ (driver = "rounds" /\ winner(game) = "None") =>
          /\ game.effect_timers.shield_timer \in {0, 1, 3, 5}
          /\ game.effect_timers.poison_timer \in {0, 1, 3, 5}
          /\ game.effect_timers.recharge_timer \in {0, 2, 4}
    /\ (driver = "rounds" /\ last.op = "play_round" /\ winner(last.pre) = "None") =>
          last.pre.effect_timers.recharge_timer # 1

\* a round, after rounds only, in which Shield is cast and accepted on a
\* Game whose Shield is in its last tick and whose Recharge has two ticks left
C36_Witness ==
    /\ driver = "rounds"
    /\ last.op = "play_round"
    /\ last.spell = "Shield"
    /\ last.pre.effect_timers.shield_timer = 1
    /\ last.pre.effect_timers.recharge_timer = 2
    /\ last.result \notin GameError
    /\ game.effect_timers.shield_timer = 5

----------------------------------------------------------------------------
(* Claims that compare two searches, checked under SearchSpec *)

\* the same player and boss on Difficulty::Normal
OnNormal(g) == [g EXCEPT !.difficulty = "Normal"]

\* C37: difficulty monotonicity.  When the search on a Game of
\* Difficulty::Hard returns Some(h), the search on the same player and boss
\* on Difficulty::Normal returns Some(n) with n <= h; and every sequence of
\* spells whose rounds are accepted and end in Winner::Player on Hard does
\* so on Normal, so its cost is the cost of a win on Normal.
C37_DifficultyMonotone ==
    (pc = "done" /\ initial.difficulty = "Hard") =>
        /\ returned.tag = "Some" =>
              \E n \in { find_lowest_mana_cost_to_win(
                             DijkstraOptimizer_new(OnNormal(initial))) } :
                 /\ n.tag = "Some"
                 /\ n.value <= returned.value
        /\ WinningCosts(initial) \subseteq WinningCosts(OnNormal(initial))

\* a search on Hard that has returned a cost above the one the search on
\* Normal returns for the same player and boss
C37_Witness ==
    /\ pc = "done"
    /\ initial.difficulty = "Hard"
    /\ returned.tag = "Some"
    /\ find_lowest_mana_cost_to_win(DijkstraOptimizer_new(OnNormal(initial))).value
          < returned.value
====
